---- MODULE Spec2Model ----
(***************************************************************************)
(* A model of src/ml/alert_correlation.py (class AlertCorrelator).         *)
(*                                                                         *)
(* Three specifications drive the same state:                              *)
(*   SpecIncidents : a caller invokes create_incidents(df, cluster_labels) *)
(*                   on an arbitrary batch and label array;                *)
(*   SpecCluster   : a caller invokes cluster_alerts(features, eps,        *)
(*                   min_samples);                                         *)
(*   Spec          : correlate_alerts(csv_path, output_path), one action   *)
(*                   per method it calls.                                  *)
(*                                                                         *)
(* Library calls (pandas, scikit-learn) are modelled by their documented   *)
(* behaviour at the call site.  Values the claims never read (the scaled   *)
(* feature values, the estimated eps, the labels DBSCAN picks) are chosen  *)
(* nondeterministically among the values the call can return.              *)
(***************************************************************************)
EXTENDS Integers, Sequences, FiniteSets

VARIABLES
    pc,             \* position of the running call
    csv,            \* content of the file at csv_path, or Unreadable
    output_path,    \* argument of correlate_alerts
    df,             \* DataFrame held by the call (its rows), or None
    processed_df,   \* the copy preprocess_features returns, with its added columns
    features,       \* feature matrix, by its number of rows (one vector per alert)
    eps,            \* eps argument of cluster_alerts, or None
    min_samples,    \* min_samples argument of cluster_alerts
    clusterer,      \* self.clusterer
    cluster_labels, \* label array: one label per alert
    incidents,      \* the incident list (one list object, shared with the caller)
    file,           \* the artifact at output_path
    save_error,     \* the exception save_incidents caught and printed, or None
    result          \* what the call returned or raised

vars == << pc, csv, output_path, df, processed_df, features, eps, min_samples, clusterer,
           cluster_labels, incidents, file, save_error, result >>

(***************************************************************************)
(* Bounds of the model.                                                    *)
(***************************************************************************)
MaxBatch == 3        \* alerts in a batch handed to create_incidents
MaxLabel == 1        \* largest cluster id in a label array handed to create_incidents
MaxVectors == 4      \* vectors handed to cluster_alerts
MaxMinSamples == 3   \* largest min_samples handed to cluster_alerts
MaxEps == 2          \* eps values: 0..MaxEps
MaxRows == 6         \* rows of the CSV file correlate_alerts reads

(***************************************************************************)
(* Program constants.                                                      *)
(***************************************************************************)
DefaultMinSamples == 5
HighThreshold == 500000
MediumThreshold == 100000
NoiseLabel == -1

None == [kind |-> "None"]

(***************************************************************************)
(* Values.  A timestamp is either the text of the CSV cell or the          *)
(* pandas.Timestamp that pd.to_datetime makes of it; t is the instant in   *)
(* minutes, and a text that is no date has t = -1.                         *)
(***************************************************************************)
TextOf(t) == [kind |-> "str", t |-> t]
TimestampOf(t) == [kind |-> "Timestamp", t |-> t]

\* str(x) at save_incidents: the text of a Timestamp; a str is returned as it is.
Str(x) == IF x.kind = "Timestamp" THEN TextOf(x.t) ELSE x

\* pd.to_datetime on one cell: raises on a text that is no date.
Parseable(x) == x.t >= 0
ToDatetime(x) == TimestampOf(x.t)

\* String order, as Python compares str: the codes and devices of the model,
\* listed in ascending order.
ErrorCodes == << "BGP_FAIL", "LINK_DOWN", "TIMEOUT" >>
Devices == << "R1", "T1", "T2" >>
RankIn(order, s) == CHOOSE i \in 1..Len(order) : order[i] = s

Row(t, dev, err, cust, risk) ==
    [ timestamp |-> TextOf(t), device_id |-> dev, error_code |-> err,
      customer_impact |-> cust, revenue_risk |-> risk ]

\* Rows of the input artifact the batches are drawn from.
AlertPool ==
    { Row(70, "T1", "LINK_DOWN", 10, 50000),
      Row(65, "T2", "BGP_FAIL", 20, 50000),
      Row(1500, "R1", "BGP_FAIL", 30, 250000),
      Row(3000, "T1", "TIMEOUT", 40, 600000) }

\* A row whose timestamp cell is no date.
MalformedRow == Row(-1, "T1", "BGP_FAIL", 10, 50000)

SeqsUpTo(S, n) == UNION { [1..k -> S] : k \in 0..n }

(***************************************************************************)
(* Helpers on sequences.                                                   *)
(***************************************************************************)
Range(s) == { s[i] : i \in 1..Len(s) }

RECURSIVE SumOf(_)
SumOf(s) == IF s = << >> THEN 0 ELSE Head(s) + SumOf(Tail(s))

Column(rows, col) == [ i \in 1..Len(rows) |-> rows[i][col] ]

Count(s, v) == Cardinality({ i \in 1..Len(s) : s[i] = v })

\* sorted(S) for a finite set of integers.
RECURSIVE SortedInts(_)
SortedInts(S) ==
    IF S = {} THEN << >>
    ELSE LET m == CHOOSE x \in S : \A y \in S : x <= y
         IN << m >> \o SortedInts(S \ {m})

\* sorted(S) for a finite set of strings of the given order.
SortedStrings(order, S) ==
    LET ranks == SortedInts({ RankIn(order, s) : s \in S })
    IN [ i \in 1..Len(ranks) |-> order[ranks[i]] ]

\* df[mask]: the rows whose label is c, in input order.
RowsLabelled(rows, labels, c) ==
    LET F[i \in 0..Len(rows)] ==
            IF i = 0 THEN << >>
            ELSE IF labels[i] = c THEN Append(F[i-1], rows[i]) ELSE F[i-1]
    IN F[Len(rows)]

(***************************************************************************)
(* create_incidents (lines 103-171).                                       *)
(***************************************************************************)

\* The priority tiers of lines 124-129.
PriorityInclusive(total_revenue_risk) ==
    IF total_revenue_risk >= HighThreshold THEN "High"
    ELSE IF total_revenue_risk >= MediumThreshold THEN "Medium"
    ELSE "Low"

Priority(total_revenue_risk) ==
    IF total_revenue_risk > HighThreshold THEN "High"
    ELSE IF total_revenue_risk > MediumThreshold THEN "Medium"
    ELSE "Low"

\* Line 158: the priority of a noise alert's incident is the literal 'Low'.
NoisePriorityByRisk(revenue_risk) == Priority(revenue_risk)

NoisePriority(revenue_risk) == "Low"

\* Lines 119-120: int(column.sum()).
TotalOfFirst(cluster_alerts, col) ==
    IF cluster_alerts = << >> THEN 0 ELSE cluster_alerts[1][col]

Total(cluster_alerts, col) == SumOf(Column(cluster_alerts, col))

\* The values of a column that occur most often.
Modes(values) ==
    { v \in Range(values) : \A w \in Range(values) : Count(values, v) >= Count(values, w) }

\* The most frequent value that occurs first in the column.
FirstEncounteredMode(values) ==
    values[CHOOSE i \in 1..Len(values) :
              /\ values[i] \in Modes(values)
              /\ \A j \in 1..(i-1) : values[j] \notin Modes(values)]

PrimaryErrorFirstEncountered(cluster_alerts) ==
    FirstEncounteredMode(Column(cluster_alerts, "error_code"))

\* Line 132: Series.mode() returns the most frequent values sorted ascending;
\* .iloc[0] takes the first of them, the smallest.
PrimaryError(cluster_alerts) ==
    SortedStrings(ErrorCodes, Modes(Column(cluster_alerts, "error_code")))[1]

\* Line 133: sorted(unique().tolist()).
AffectedDevices(cluster_alerts) ==
    SortedStrings(Devices, Range(Column(cluster_alerts, "device_id")))

\* Lines 145-146: min() and max() of the timestamp column.
MinTimestamp(cluster_alerts) ==
    LET ts == Range(Column(cluster_alerts, "timestamp"))
    IN CHOOSE x \in ts : \A y \in ts : x.t <= y.t

MaxTimestamp(cluster_alerts) ==
    LET ts == Range(Column(cluster_alerts, "timestamp"))
    IN CHOOSE x \in ts : \A y \in ts : x.t >= y.t

\* Lines 116-147: the incident of one cluster; n incidents exist already.
ClusterIncident(cluster_alerts, n) ==
    [ incident_id        |-> n + 1,
      alert_count        |-> Len(cluster_alerts),
      alerts             |-> cluster_alerts,
      priority           |-> Priority(Total(cluster_alerts, "revenue_risk")),
      total_customers    |-> Total(cluster_alerts, "customer_impact"),
      total_revenue_risk |-> Total(cluster_alerts, "revenue_risk"),
      primary_error      |-> PrimaryError(cluster_alerts),
      affected_devices   |-> AffectedDevices(cluster_alerts),
      start_time         |-> MinTimestamp(cluster_alerts),
      end_time           |-> MaxTimestamp(cluster_alerts) ]

\* Lines 154-165: the incident of one noise alert; n incidents exist already.
NoiseIncident(alert, n) ==
    [ incident_id        |-> n + 1,
      alert_count        |-> 1,
      alerts             |-> << alert >>,
      priority           |-> NoisePriority(alert.revenue_risk),
      total_customers    |-> alert.customer_impact,
      total_revenue_risk |-> alert.revenue_risk,
      primary_error      |-> alert.error_code,
      affected_devices   |-> << alert.device_id >>,
      start_time         |-> alert.timestamp,
      end_time           |-> alert.timestamp ]

\* Lines 112-149: one incident per label of sorted(set(cluster_labels)),
\* the noise label skipped.
ClusterIds(labels) == SortedInts(Range(labels) \ {NoiseLabel})

ClusterIncidents(rows, labels) ==
    LET ids == ClusterIds(labels)
    IN [ k \in 1..Len(ids) |-> ClusterIncident(RowsLabelled(rows, labels, ids[k]), k - 1) ]

\* Lines 152-166: one incident per noise row, appended after the n cluster
\* incidents in input order.
NoNoiseIncidents(rows, labels, n) == << >>

NoiseIncidents(rows, labels, n) ==
    LET noise_alerts == RowsLabelled(rows, labels, NoiseLabel)
    IN [ j \in 1..Len(noise_alerts) |-> NoiseIncident(noise_alerts[j], n + j - 1) ]

\* Line 169: list.sort(key=total_revenue_risk, reverse=True).  Python's sort
\* is stable, also with reverse=True: elements with equal keys keep their
\* order.  Each element is placed behind those whose key is >= its own.
RECURSIVE SortBy(_, _, _)
SortBy(todo, done, strict) ==
    IF todo = << >> THEN done
    ELSE LET x == Head(todo)
             k == Cardinality({ i \in 1..Len(done) :
                     IF strict
                     THEN done[i].total_revenue_risk > x.total_revenue_risk
                     ELSE done[i].total_revenue_risk >= x.total_revenue_risk })
         IN SortBy(Tail(todo),
                   SubSeq(done, 1, k) \o << x >> \o SubSeq(done, k + 1, Len(done)),
                   strict)

SortUnstable(incs) == SortBy(incs, << >>, TRUE)

SortByRevenueRisk(incs) == SortBy(incs, << >>, FALSE)

\* The incidents in creation order, before line 169.
CreatedIncidents(rows, labels) ==
    LET clustered == ClusterIncidents(rows, labels)
    IN clustered \o NoiseIncidents(rows, labels, Len(clustered))

CreateIncidents(rows, labels) == SortByRevenueRisk(CreatedIncidents(rows, labels))

(***************************************************************************)
(* load_alerts (lines 22-30) and preprocess_features (lines 32-60).        *)
(***************************************************************************)
Unreadable == [kind |-> "unreadable"]
CsvOf(rows) == [kind |-> "csv", rows |-> rows]
DataFrame(rows) == [kind |-> "DataFrame", rows |-> rows]

\* Lines 24-30: pd.read_csv, any exception turned into None.
LoadAlertsResult(content) ==
    IF content = Unreadable THEN None ELSE DataFrame(content.rows)

\* LabelEncoder.fit_transform (line 47): the index of the value among the
\* sorted distinct values of the column.
Encoded(order, values, v) ==
    Cardinality({ w \in Range(values) : RankIn(order, w) < RankIn(order, v) })

\* Lines 38-40 with t in minutes since a Monday midnight.
HourOf(t) == (t \div 60) % 24
DayOfWeekOf(t) == (t \div 1440) % 7

\* Lines 38 and 58 raise: pd.to_datetime on a cell that is no date, and
\* StandardScaler.fit_transform on a matrix without rows.
PreprocessRaises(rows) ==
    \/ \E i \in 1..Len(rows) : ~Parseable(rows[i].timestamp)
    \/ rows = << >>

\* Lines 35-47: the processed copy.
ProcessedRows(rows) ==
    [ i \in 1..Len(rows) |->
        [ timestamp          |-> ToDatetime(rows[i].timestamp),
          device_id          |-> rows[i].device_id,
          error_code         |-> rows[i].error_code,
          customer_impact    |-> rows[i].customer_impact,
          revenue_risk       |-> rows[i].revenue_risk,
          hour               |-> HourOf(rows[i].timestamp.t),
          day_of_week        |-> DayOfWeekOf(rows[i].timestamp.t),
          device_id_encoded  |-> Encoded(Devices, Column(rows, "device_id"), rows[i].device_id),
          error_code_encoded |-> Encoded(ErrorCodes, Column(rows, "error_code"), rows[i].error_code) ] ]

(***************************************************************************)
(* find_optimal_eps (lines 62-78) and cluster_alerts (lines 80-101).       *)
(***************************************************************************)
Float(v) == [kind |-> "float", v |-> v]
Raised(where) == [kind |-> "raise", exc |-> "ValueError", where |-> where]
Returned(what) == [kind |-> "return", what |-> what]
Running == [kind |-> "running"]

\* Lines 67-69: NearestNeighbors(n_neighbors=min_samples).fit(features)
\* .kneighbors(features).  The query matrix is passed explicitly, so every
\* point counts as its own nearest neighbour and kneighbors raises
\* ValueError when n_neighbors > n_samples_fit (fit raises on no rows).
EstimationFailsBelowNextSize(n, k) == n < k + 1

EstimationFails(n, k) == n < k

\* Lines 72-76: the 75th percentile of the distances to the k-th nearest
\* neighbour, a distance >= 0: 0 when most rows coincide, and always 0 for
\* k = 1, where the nearest neighbour of every point is the point itself.
EstimatedEps(k) == { Float(v) : v \in 0..(IF k = 1 THEN 0 ELSE MaxEps) }

\* The eps values a caller passes.
ExplicitEps == { Float(v) : v \in 0..MaxEps }

\* Lines 88-89: DBSCAN(eps, min_samples).fit_predict raises ValueError on
\* eps <= 0 and on a matrix without rows.
DbscanRaises(n, e) == n = 0 \/ e.v <= 0

\* Line 89: a label array fit_predict can return.  Cluster ids are 0..c-1
\* without gaps; the first cluster is grown from a core point and takes its
\* whole neighbourhood, at least min_samples points; a point is its own
\* neighbour, so with min_samples = 1 every point is core and none is noise.
DbscanLabels(n, k) ==
    LET most == IF n < k THEN 0 ELSE n - k + 1
    IN { l \in [1..n -> (-1)..(most - 1)] :
            LET ids == Range(l) \ {NoiseLabel}
            IN /\ \A c \in ids : \A b \in 0..c : b \in ids
               /\ ids # {} => Count(l, 0) >= k
               /\ k <= 1 => NoiseLabel \notin Range(l) }

\* Lines 92-98: with more than one cluster silhouette_score is computed; it
\* raises ValueError unless the number of distinct labels (noise counted)
\* is between 2 and the number of rows minus 1.
SilhouetteRaises(labels) ==
    LET n_clusters == Cardinality(Range(labels) \ {NoiseLabel})
        n_labels == Cardinality(Range(labels))
    IN n_clusters > 1 /\ ~(2 <= n_labels /\ n_labels <= Len(labels) - 1)

(***************************************************************************)
(* save_incidents (lines 210-238).                                         *)
(***************************************************************************)
\* Line 205: "if output_path:".
Truthy(path) == path # None /\ path.v # ""

\* os.path.dirname of the paths of the model.
Dirname(path) == IF path.v = "data/incidents.json" THEN "data" ELSE ""

OutputPaths == { None, [kind |-> "str", v |-> ""], [kind |-> "str", v |-> "incidents.json"],
                 [kind |-> "str", v |-> "data/incidents.json"] }

\* Where lines 227-233 can raise: os.makedirs (always on an empty dirname),
\* open, json.dump.
SaveFaults(path) ==
    IF Dirname(path) = "" THEN {"makedirs"} ELSE {"none", "makedirs", "open", "dump"}

\* Lines 221-223: the loop runs over incident_copy['alerts'], which is the
\* list of the incident itself (dict.copy is shallow): each alert record of
\* the incident gets its timestamp replaced by its text.
AlertsAfterSave(alerts) ==
    [ i \in 1..Len(alerts) |-> [ alerts[i] EXCEPT !.timestamp = Str(@) ] ]

IncidentAfterSave(incident) == [ incident EXCEPT !.alerts = AlertsAfterSave(@) ]

\* Lines 216-225: the copy that is serialised.
IncidentJson(incident) ==
    [ IncidentAfterSave(incident) EXCEPT !.start_time = Str(@), !.end_time = Str(@) ]

\* Lines 229-233.
Document(incs) ==
    [ kind |-> "json", timestamp |-> "now", total_incidents |-> Len(incs),
      incidents |-> [ i \in 1..Len(incs) |-> IncidentJson(incs[i]) ] ]

Absent == [kind |-> "absent"]
Partial == [kind |-> "partial"]

\* Lines 212/237: the try block catches every Exception; none leaves
\* save_incidents.
SaveRaisesOnFault(fault) == fault # "none"

SaveRaises(fault) == FALSE

(***************************************************************************)
(* The calls.                                                              *)
(***************************************************************************)
\* create_incidents(df, cluster_labels), lines 103-171.
CallCreateIncidents ==
    /\ pc = "create_incidents"
    /\ incidents' = CreateIncidents(df.rows, cluster_labels)
    /\ result' = Returned("incidents")
    /\ pc' = "done"
    /\ UNCHANGED << csv, output_path, df, processed_df, features, eps, min_samples,
                    clusterer, cluster_labels, file, save_error >>

\* The body of cluster_alerts, lines 82-101; after is where the caller goes on.
ClusterAlertsBody(after) ==
    IF eps = None /\ EstimationFails(features, min_samples)
    THEN /\ result' = Raised("find_optimal_eps")
         /\ pc' = "done"
         /\ UNCHANGED << clusterer, cluster_labels >>
    ELSE \E e \in (IF eps = None THEN EstimatedEps(min_samples) ELSE {eps}) :
            /\ clusterer' = [kind |-> "DBSCAN", eps |-> e, min_samples |-> min_samples]
            /\ IF DbscanRaises(features, e)
               THEN /\ result' = Raised("DBSCAN")
                    /\ pc' = "done"
                    /\ UNCHANGED cluster_labels
               ELSE \E labels \in DbscanLabels(features, min_samples) :
                       IF SilhouetteRaises(labels)
                       THEN /\ result' = Raised("silhouette_score")
                            /\ pc' = "done"
                            /\ UNCHANGED cluster_labels
                       ELSE /\ cluster_labels' = labels
                            /\ result' = IF after = "done"
                                         THEN Returned("cluster_labels") ELSE result
                            /\ pc' = after

\* cluster_alerts(features, eps, min_samples), lines 80-101.
CallClusterAlerts ==
    /\ pc = "cluster_alerts"
    /\ ClusterAlertsBody("done")
    /\ UNCHANGED << csv, output_path, df, processed_df, features, eps, min_samples,
                    incidents, file, save_error >>

\* correlate_alerts, lines 176-178.
LoadAlerts ==
    /\ pc = "load_alerts"
    /\ df' = LoadAlertsResult(csv)
    /\ IF df' = None
       THEN result' = Returned("None") /\ pc' = "done"
       ELSE result' = result /\ pc' = "preprocess_features"
    /\ UNCHANGED << csv, output_path, processed_df, features, eps, min_samples,
                    clusterer, cluster_labels, incidents, file, save_error >>

\* correlate_alerts, line 181.
PreprocessFeatures ==
    /\ pc = "preprocess_features"
    /\ IF PreprocessRaises(df.rows)
       THEN /\ result' = Raised("preprocess_features")
            /\ pc' = "done"
            /\ UNCHANGED << processed_df, features >>
       ELSE /\ processed_df' = DataFrame(ProcessedRows(df.rows))
            /\ features' = Len(df.rows)
            /\ result' = result
            /\ pc' = "cluster_alerts"
    /\ UNCHANGED << csv, output_path, df, eps, min_samples, clusterer,
                    cluster_labels, incidents, file, save_error >>

\* correlate_alerts, line 184: cluster_alerts(features), eps and min_samples
\* at their defaults.
ClusterAlerts ==
    /\ pc = "cluster_alerts"
    /\ ClusterAlertsBody("create_incidents")
    /\ UNCHANGED << csv, output_path, df, processed_df, features, eps, min_samples,
                    incidents, file, save_error >>

\* correlate_alerts, lines 187-205: create_incidents(processed_df, cluster_labels),
\* the printed summary, and the test of output_path.
CreateIncidentsStep ==
    /\ pc = "create_incidents"
    /\ incidents' = CreateIncidents(processed_df.rows, cluster_labels)
    /\ pc' = IF Truthy(output_path) THEN "save_incidents" ELSE "return"
    /\ UNCHANGED << csv, output_path, df, processed_df, features, eps, min_samples,
                    clusterer, cluster_labels, file, save_error, result >>

\* correlate_alerts, line 206: save_incidents(incidents, output_path).
SaveIncidents ==
    /\ pc = "save_incidents"
    /\ incidents' = [ i \in 1..Len(incidents) |-> IncidentAfterSave(incidents[i]) ]
    /\ \E fault \in SaveFaults(output_path) :
          /\ save_error' = IF fault = "none" THEN None
                           ELSE [kind |-> "Exception", where |-> fault]
          /\ file' = IF fault = "none" THEN Document(incidents)
                     ELSE IF fault = "dump" THEN Partial ELSE file
          /\ IF SaveRaises(fault)
             THEN result' = Raised("save_incidents") /\ pc' = "done"
             ELSE result' = result /\ pc' = "return"
    /\ UNCHANGED << csv, output_path, df, processed_df, features, eps, min_samples,
                    clusterer, cluster_labels >>

\* correlate_alerts, line 208: return incidents (the list object itself).
ReturnIncidents ==
    /\ pc = "return"
    /\ result' = Returned("incidents")
    /\ pc' = "done"
    /\ UNCHANGED << csv, output_path, df, processed_df, features, eps, min_samples,
                    clusterer, cluster_labels, incidents, file, save_error >>

(***************************************************************************)
(* Specifications.                                                         *)
(***************************************************************************)
\* A caller of create_incidents: any batch, any parallel label array.
InitIncidents ==
    /\ pc = "create_incidents"
    /\ \E rows \in SeqsUpTo(AlertPool, MaxBatch) :
          /\ df = DataFrame(rows)
          /\ cluster_labels \in [1..Len(rows) -> (-1)..MaxLabel]
    /\ csv = Unreadable /\ output_path = None /\ processed_df = None
    /\ features = 0 /\ eps = None /\ min_samples = DefaultMinSamples
    /\ clusterer = None /\ incidents = << >>
    /\ file = Absent /\ save_error = None /\ result = Running

NextIncidents == CallCreateIncidents

SpecIncidents == InitIncidents /\ [][NextIncidents]_vars

\* A caller of cluster_alerts: any matrix size, eps given or not.
InitCluster ==
    /\ pc = "cluster_alerts"
    /\ features \in 0..MaxVectors
    /\ eps \in {None} \cup ExplicitEps
    /\ min_samples \in 1..MaxMinSamples
    /\ csv = Unreadable /\ output_path = None /\ df = None /\ processed_df = None
    /\ clusterer = None /\ cluster_labels = << >> /\ incidents = << >>
    /\ file = Absent /\ save_error = None /\ result = Running

NextCluster == CallClusterAlerts

SpecCluster == InitCluster /\ [][NextCluster]_vars

\* correlate_alerts(csv_path, output_path) on a fresh AlertCorrelator.
PipelinePool ==
    { Row(70, "T1", "LINK_DOWN", 10, 50000), Row(3000, "T1", "TIMEOUT", 40, 600000),
      MalformedRow }

Init ==
    /\ pc = "load_alerts"
    /\ csv \in {Unreadable} \cup { CsvOf(rows) : rows \in SeqsUpTo(PipelinePool, MaxRows) }
    /\ output_path \in OutputPaths
    /\ df = None /\ processed_df = None
    /\ features = 0 /\ eps = None /\ min_samples = DefaultMinSamples
    /\ clusterer = None /\ cluster_labels = << >> /\ incidents = << >>
    /\ file = Absent /\ save_error = None /\ result = Running

Next ==
    \/ LoadAlerts
    \/ PreprocessFeatures
    \/ ClusterAlerts
    \/ CreateIncidentsStep
    \/ SaveIncidents
    \/ ReturnIncidents

Spec == Init /\ [][Next]_vars

(***************************************************************************)
(* The claims.  CreateDone, ClusterDone and PipelineDone say that the call *)
(* of the specification has ended.                                         *)
(***************************************************************************)
Done == pc = "done"
Positions == 1..Len(incidents)
InputRows == df.rows
NumClusters == Cardinality(Range(cluster_labels) \ {NoiseLabel})
NoisePositions == { i \in 1..Len(cluster_labels) : cluster_labels[i] = NoiseLabel }
IsClusterIncident(k) == incidents[k].incident_id <= NumClusters
ByThreshold(risk) ==
    IF risk > 500000 THEN "High" ELSE IF risk > 100000 THEN "Medium" ELSE "Low"
WithId(id) == { k \in Positions : incidents[k].incident_id = id }

\* C1: after create_incidents every input alert is in the member list of
\* exactly one incident (each row value occurs in the member lists, all
\* together, exactly as often as in the batch, and no member is foreign to
\* the batch), and alert_count is the length of the member list.
C1_Partition ==
    Done =>
        /\ \A r \in Range(InputRows) :
              Count(InputRows, r)
                 = SumOf([ k \in Positions |-> Count(incidents[k].alerts, r) ])
        /\ \A k \in Positions : Range(incidents[k].alerts) \subseteq Range(InputRows)
        /\ SumOf([ k \in Positions |-> Len(incidents[k].alerts) ]) = Len(InputRows)
        /\ \A k \in Positions : incidents[k].alert_count = Len(incidents[k].alerts)

\* A batch with the same row twice, one copy in a two-alert cluster and one
\* copy noise.
C1_Witness ==
    /\ Done
    /\ \E k \in Positions : incidents[k].alert_count >= 2
    /\ \E i \in NoisePositions : \E j \in 1..Len(InputRows) :
          j # i /\ InputRows[j] = InputRows[i] /\ cluster_labels[j] # NoiseLabel

\* C2: in the returned list the incident at position k has incident_id = k.
C2_IdsFollowFinalOrder ==
    Done => \A k \in Positions : incidents[k].incident_id = k

\* C3: the returned list is the stable descending sort by
\* total_revenue_risk of the incidents in creation order: it holds each
\* created incident once (incident_id is the creation position), risks
\* never increase along it, and incidents of equal risk keep their creation
\* order.
C3_StableDescendingSort ==
    Done =>
        LET created == CreatedIncidents(InputRows, cluster_labels)
        IN /\ Len(incidents) = Len(created)
           /\ \A c \in 1..Len(created) : Cardinality(WithId(c)) = 1
           /\ \A k \in Positions : incidents[k] = created[incidents[k].incident_id]
           /\ \A i, j \in Positions :
                 i < j =>
                    /\ incidents[i].total_revenue_risk >= incidents[j].total_revenue_risk
                    /\ incidents[i].total_revenue_risk = incidents[j].total_revenue_risk
                          => incidents[i].incident_id < incidents[j].incident_id

\* The sort moved an incident forward, past two incidents of equal risk.
C3_Witness ==
    /\ Done
    /\ \E i, j \in Positions :
          /\ i < j
          /\ incidents[i].total_revenue_risk = incidents[j].total_revenue_risk
    /\ \E k \in Positions : incidents[k].incident_id > k + 1

\* C4 as stated: every incident, from a cluster or from a noise alert, has
\* the priority its total_revenue_risk gives by the thresholds.
C4_PriorityByThresholdForAll ==
    Done => \A k \in Positions :
               incidents[k].priority = ByThreshold(incidents[k].total_revenue_risk)

\* C4 as amended: an incident built from a cluster has priority High when
\* its total_revenue_risk > 500000, Medium when 100000 < total <= 500000 and
\* Low otherwise; a noise alert's incident has priority Low whatever its
\* revenue_risk.
C4_PriorityByThresholdForClusters ==
    Done => \A k \in Positions :
               incidents[k].priority =
                  IF IsClusterIncident(k)
                  THEN ByThreshold(incidents[k].total_revenue_risk)
                  ELSE "Low"

\* Clusters that sum to exactly 500000 and to exactly 100000, beside a noise
\* alert above the High threshold.
C4_Witness ==
    /\ Done
    /\ \E k \in Positions :
          IsClusterIncident(k) /\ incidents[k].total_revenue_risk \in {100000, 500000}
    /\ \E k \in Positions :
          ~IsClusterIncident(k) /\ incidents[k].total_revenue_risk > 500000

\* C5: one incident per distinct non-noise label (the c-th smallest label's
\* incident is the c-th created and holds exactly the rows of that label),
\* one incident per noise alert (the j-th noise alert's incident is created
\* j-th after the clusters), each noise incident with alert_count 1, that
\* alert as its only member and priority Low.
C5_OnePerClusterOnePerNoise ==
    Done =>
        LET ids == SortedInts(Range(cluster_labels) \ {NoiseLabel})
            noise == SortedInts(NoisePositions)
        IN /\ Len(incidents) = Len(ids) + Len(noise)
           /\ \A c \in 1..Len(ids) :
                 /\ Cardinality(WithId(c)) = 1
                 /\ \A k \in WithId(c) :
                       /\ Len(incidents[k].alerts) = Count(cluster_labels, ids[c])
                       /\ incidents[k].alerts
                             = RowsLabelled(InputRows, cluster_labels, ids[c])
           /\ \A j \in 1..Len(noise) :
                 /\ Cardinality(WithId(Len(ids) + j)) = 1
                 /\ \A k \in WithId(Len(ids) + j) :
                       /\ incidents[k].alert_count = 1
                       /\ incidents[k].alerts = << InputRows[noise[j]] >>
                       /\ incidents[k].priority = "Low"

\* Two clusters and a noise alert whose own revenue_risk is above the High
\* threshold.
C5_Witness ==
    /\ Done
    /\ NumClusters >= 2
    /\ \E i \in NoisePositions : InputRows[i].revenue_risk > 500000

\* C6: total_customers and total_revenue_risk of every returned incident
\* are the sums of customer_impact and of revenue_risk over its member list.
C6_TotalsAreSums ==
    Done => \A k \in Positions :
               LET members == incidents[k].alerts
               IN /\ incidents[k].total_customers
                        = SumOf([ i \in 1..Len(members) |-> members[i].customer_impact ])
                  /\ incidents[k].total_revenue_risk
                        = SumOf([ i \in 1..Len(members) |-> members[i].revenue_risk ])

\* An incident of three members that differ in both columns.
C6_Witness ==
    /\ Done
    /\ \E k \in Positions :
          /\ incidents[k].alert_count = 3
          /\ incidents[k].alerts[1].customer_impact # incidents[k].alerts[2].customer_impact
          /\ incidents[k].alerts[2].revenue_risk # incidents[k].alerts[3].revenue_risk

EstimationFailure == Raised("find_optimal_eps")

\* C7 as stated: without an explicit eps, a batch of fewer than
\* min_samples + 1 vectors ends in an estimation failure with no clustering
\* attempted.
C7_FailsBelowMinPtsPlusOne ==
    (Done /\ eps = None /\ features < min_samples + 1)
        => (result = EstimationFailure /\ clusterer = None)

\* C7 as amended: without an explicit eps, a batch of fewer than min_samples
\* vectors ends in an estimation failure with no clustering attempted, and a
\* batch of min_samples vectors or more is estimated and handed to DBSCAN;
\* with an explicit eps there is no estimation failure, DBSCAN is built with
\* the eps supplied, and fit_predict accepts a batch that is not empty when
\* eps > 0 (the labels are returned unless silhouette_score raises).
C7_FailsBelowMinPts ==
    Done =>
        /\ (eps = None /\ features < min_samples)
              => /\ result = EstimationFailure
                 /\ clusterer = None
                 /\ cluster_labels = << >>
        /\ (eps = None /\ features >= min_samples)
              => /\ result # EstimationFailure
                 /\ clusterer # None
        /\ eps # None
              => /\ result # EstimationFailure
                 /\ clusterer # None
                 /\ clusterer.eps = eps
                 /\ (features > 0 /\ eps.v > 0)
                       => \/ /\ result = Returned("cluster_labels")
                             /\ Len(cluster_labels) = features
                          \/ result = Raised("silhouette_score")

\* A batch of exactly min_samples vectors, no eps given, clustered.
C7_Witness ==
    /\ Done
    /\ eps = None
    /\ features = min_samples
    /\ result = Returned("cluster_labels")
    /\ \E i \in 1..Len(cluster_labels) : cluster_labels[i] = 0

\* C8 as stated: primary_error is the most frequent error_code of the member
\* list, the first one in the member list among equally frequent ones.
C8_PrimaryErrorFirstEncountered ==
    Done => \A k \in Positions :
               LET codes == Column(incidents[k].alerts, "error_code")
               IN incidents[k].primary_error = FirstEncounteredMode(codes)

\* C8 as amended: primary_error is a most frequent error_code of the member
\* list, the smallest in string order among equally frequent ones.
C8_PrimaryErrorSmallestMode ==
    Done => \A k \in Positions :
               LET codes == Column(incidents[k].alerts, "error_code")
                   top == { v \in Range(codes) :
                              \A w \in Range(codes) : Count(codes, v) >= Count(codes, w) }
               IN /\ incidents[k].primary_error \in top
                  /\ \A v \in top :
                        RankIn(ErrorCodes, incidents[k].primary_error) <= RankIn(ErrorCodes, v)

\* A cluster whose two most frequent codes tie, the larger one met first.
C8_Witness ==
    /\ Done
    /\ \E k \in Positions :
          LET codes == Column(incidents[k].alerts, "error_code")
          IN /\ Cardinality(Modes(codes)) >= 2
             /\ codes[1] # incidents[k].primary_error

\* The incident list as create_incidents returned it to correlate_alerts.
Computed == CreateIncidents(processed_df.rows, cluster_labels)
TimestampsAsText(incs) == [ k \in 1..Len(incs) |-> IncidentAfterSave(incs[k]) ]
NothingClusteredOrWritten ==
    /\ clusterer = None /\ cluster_labels = << >> /\ incidents = << >>
    /\ file = Absent /\ save_error = None

\* C9: when writing the artifact fails inside save_incidents,
\* correlate_alerts still returns the incident list, every computed
\* incident in it (up to the text form of the member timestamps, see C10),
\* not None and not an exception; it returns None exactly when the load
\* failed, and then nothing was clustered or written.
C9_SaveFailureStillReturns ==
    Done =>
        /\ save_error # None
              => /\ result = Returned("incidents")
                 /\ Len(incidents) = Len(Computed)
                 /\ TimestampsAsText(incidents) = TimestampsAsText(Computed)
        /\ result = Returned("None") <=> csv = Unreadable
        /\ result = Returned("None") => NothingClusteredOrWritten

\* A failed write (json.dump, with a partial file left) after which the
\* caller holds two incidents or more.
C9_Witness ==
    /\ Done
    /\ save_error # None
    /\ file = Partial
    /\ result = Returned("incidents")
    /\ Len(incidents) >= 2

\* C10: after correlate_alerts returned the list, every incident in it is
\* as create_incidents made it, member alert records and their timestamp
\* values included, whether save_incidents ran, failed or succeeded.
C10_SaveLeavesIncidentsAlone ==
    (Done /\ result = Returned("incidents")) => incidents = Computed

====
